---- MODULE Spec2Model ----
(***************************************************************************)
(* Model of the dependency-injection container of lab7/lab7.py:            *)
(* Injector.register, Injector.get_instance (with _create_instance and     *)
(* _resolve_constructor_params, which recurse into get_instance) and the   *)
(* Scope context manager; and of the JSON-backed repository and the        *)
(* authorization service of lab5/lab5.py (DataRepository, AuthService).    *)
(*                                                                         *)
(* Instances live in a heap (a sequence of objects); a reference is the    *)
(* index of the object, so reference equality is equality of indices.      *)
(* A call of get_instance runs to completion inside one action: the        *)
(* recursive operators below thread the mutable part of the injector       *)
(* (the two caches and the heap) through the nested calls and return       *)
(* either a value or the exception that leaves the call.                   *)
(***************************************************************************)
EXTENDS Integers, Sequences, FiniteSets, TLC

VARIABLES
    registrations,      \* Injector._registrations
    singleton_instances,\* Injector._singleton_instances
    scoped_instances,   \* Injector._scoped_instances
    in_scope,           \* Injector._in_scope
    heap,               \* the objects built so far; heap[r] is the object with reference r
    active,             \* number of Scope guards between __enter__ and __exit__ (with-blocks open)
    entered_at,         \* Len(heap) when a Scope was entered last
    ret,                \* outcome of the last operation, as its caller sees it
    last,               \* per identity: the previous successful get_instance of a caller
    factory_calls,      \* the calls factory(**params) made during the last operation
    calls               \* operations the callers have invoked so far

\* lab5: the repository, the authorization service and their two files
VARIABLES
    items,              \* DataRepository._items
    users_json,         \* the file DataRepository._file_path ('users.json')
    current_user,       \* AuthService._current_user
    auth_json,          \* the file AuthService._AUTH_FILE ('auth.json')
    out,                \* outcome of the last operation on the repository or the service
    session             \* the last sign_in or sign_out of the process that ran before a restart

lab7_vars == <<registrations, singleton_instances, scoped_instances, in_scope,
               heap, active, entered_at, ret, last, factory_calls, calls>>

lab5_vars == <<items, users_json, current_user, auth_json, out, session>>

vars == <<lab7_vars, lab5_vars>>

-----------------------------------------------------------------------------
(* Bounds *)

\* Python's recursion limit (sys.getrecursionlimit(), 1000 by default),
\* counted in Python frames below the caller of get_instance.
RecursionLimit == 8

\* Operations (register, get_instance, scope entry, scope exit) in one behaviour.
MaxCalls == 6

-----------------------------------------------------------------------------
(* LifeStyle *)

PerRequest == "PerRequest"
Scoped == "Scoped"
Singleton == "Singleton"

LifeStyles == {PerRequest, Scoped, Singleton}

-----------------------------------------------------------------------------
(* Values held in parameters and attributes *)

None == [tag |-> "none", ref |-> 0, str |-> << >>, int |-> 0]
Str(s) == [tag |-> "str", ref |-> 0, str |-> s, int |-> 0]
IntValue(n) == [tag |-> "int", ref |-> 0, str |-> << >>, int |-> n]
Ref(r) == [tag |-> "ref", ref |-> r, str |-> << >>, int |-> 0]

\* a str is a sequence whose first element is its first character
\* and whose tail is the rest of the text
Marker(name) == Str(<<"@", name>>)
Literal(text) == Str(<<text>>)

\* isinstance(param_value, str) and param_value.startswith('@')
IsBackReference(v) == v.tag = "str" /\ Len(v.str) > 0 /\ v.str[1] = "@"

\* param_value[1:]
DependencyName(v) == Tail(v.str)

-----------------------------------------------------------------------------
(* Interfaces and module globals *)

ILogger == "ILogger"
IDatabase == "IDatabase"
IEmailService == "IEmailService"

Interfaces == {ILogger, IDatabase, IEmailService}

\* globals(): the names a back-reference can be looked up under
GlobalNames == { <<i>> : i \in Interfaces }
Globals(name) == name[1]

-----------------------------------------------------------------------------
(* Implementations *)

ConsoleLogger == "ConsoleLogger"
FileLogger == "FileLogger"
SqlDatabase == "SqlDatabase"
MockDatabase == "MockDatabase"
SmtpEmailService == "SmtpEmailService"
MockEmailService == "MockEmailService"
create_file_logger == "create_file_logger"
NotCallable == "NotCallable"          \* e.g. a str or an int passed as implementation

Classes == {ConsoleLogger, FileLogger, SqlDatabase, MockDatabase,
            SmtpEmailService, MockEmailService}
Functions == {create_file_logger}

\* isinstance(implementation, type)
IsType(impl) == impl \in Classes
\* callable(implementation)
IsCallable(impl) == impl \in Classes \cup Functions

\* keyword parameters of __init__: required ones and ones with a default
RequiredParams(cls) ==
    CASE cls = SqlDatabase -> {"connection_string"}
      [] cls = SmtpEmailService -> {"smtp_server", "smtp_port"}
      [] OTHER -> {}

OptionalParams(cls) ==
    CASE cls = SqlDatabase -> {"logger"}
      [] cls = SmtpEmailService -> {"logger"}
      [] cls = FileLogger -> {"filename"}
      [] OTHER -> {}

\* the class defines __init__ in Python (its call takes a Python frame)
DefinesInit(cls) == cls \in {FileLogger, SqlDatabase, SmtpEmailService}

\* hasattr(instance, 'set_logger')
HasSetLogger(cls) == cls \in {SqlDatabase, SmtpEmailService}

-----------------------------------------------------------------------------
(* Exceptions *)

Error(type, msg) == [type |-> type, msg |-> msg]
NoError == Error("none", << >>)

\* the classes an exception of the given type is an instance of
Bases(type) ==
    CASE type = "RecursionError" -> {"RecursionError", "RuntimeError", "Exception"}
      [] OTHER -> {type, "Exception"}

IsInstance(err, types) == Bases(err.type) \cap types # {}

RecursionError == Error("RecursionError", <<"maximum recursion depth exceeded">>)

\* a call to a Python function from frame depth f - 1 into frame depth f
Exhausted(f) == f > RecursionLimit

-----------------------------------------------------------------------------
(* Dictionaries *)

EmptyDict == [k \in {} |-> 0]
Put(d, k, v) == [y \in DOMAIN d \cup {k} |-> IF y = k THEN v ELSE d[y]]

\* params is a dict in insertion order: a sequence of <<name, value>>
Keys(params) == { params[i][1] : i \in 1..Len(params) }
Get(params, name) ==
    LET i == CHOOSE j \in 1..Len(params) : params[j][1] = name
    IN  params[i][2]
GetOr(params, name, default) ==
    IF name \in Keys(params) THEN Get(params, name) ELSE default

-----------------------------------------------------------------------------
(* Results of calls inside get_instance                                    *)
(* st = [sing, scoped, heap, factory_calls] is the injector's mutable state *)
(* a call leaves, with the factory calls made so far                       *)

Return(st, v) == [st |-> st, ok |-> TRUE, val |-> v, err |-> NoError]
Raise(st, e) == [st |-> st, ok |-> FALSE, val |-> None, err |-> e]

NoRegistration == [registered |-> FALSE]

\* f"Failed to create instance of {interface_type.__name__}: {str(e)}"
FailedToCreate(x, e) ==
    Error("RuntimeError", <<"Failed to create instance of", x>> \o e.msg)

\* implementation(**constructor_params), called from frame f - 1
Construct(st, cls, kwargs, x, f) ==
    IF ~ (RequiredParams(cls) \subseteq Keys(kwargs)
          /\ Keys(kwargs) \subseteq RequiredParams(cls) \cup OptionalParams(cls))
    THEN Raise(st, Error("TypeError", <<"__init__() arguments">>))
    ELSE IF DefinesInit(cls) /\ Exhausted(f)
    THEN Raise(st, RecursionError)
    ELSE
        LET attrs ==
                CASE cls = SqlDatabase ->
                        [connection_string |-> Get(kwargs, "connection_string"),
                         _logger |-> GetOr(kwargs, "logger", None)]
                  [] cls = SmtpEmailService ->
                        [smtp_server |-> Get(kwargs, "smtp_server"),
                         smtp_port |-> Get(kwargs, "smtp_port"),
                         _logger |-> GetOr(kwargs, "logger", None)]
                  [] cls = FileLogger ->
                        [filename |-> GetOr(kwargs, "filename", Literal("app.log"))]
                  [] OTHER -> EmptyDict
            obj == [cls |-> cls, attrs |-> attrs,
                    \* bookkeeping, not read by the program: the identity
                    \* and registration it was built for, the arguments passed
                    of |-> x, by |-> registrations[x], args |-> kwargs]
            h == Append(st.heap, obj)
        IN  Return([st EXCEPT !.heap = h], Ref(Len(h)))

\* bookkeeping: the factory registered for x was called with kwargs
FactoryCalled(st, factory, kwargs, x) ==
    [st EXCEPT !.factory_calls = Append(@, [of |-> x, factory |-> factory,
                                            kwargs |-> kwargs])]

\* factory(**params), called from frame f - 1
CallFactory(st, factory, kwargs, x, f) ==
    IF Exhausted(f)
    THEN Raise(st, RecursionError)
    ELSE IF factory = create_file_logger
    THEN IF Keys(kwargs) # {}
         THEN Raise(FactoryCalled(st, factory, kwargs, x),
                    Error("TypeError", <<"create_file_logger() arguments">>))
         ELSE Construct(FactoryCalled(st, factory, kwargs, x), FileLogger,
                        << <<"filename", Literal("custom.log")>> >>, x, f + 1)
    ELSE Raise(st, Error("TypeError", <<"not callable">>))

RECURSIVE get_instance(_, _, _)
RECURSIVE create_instance(_, _, _)
RECURSIVE resolve_constructor_params(_, _, _, _)

\* the try block's exception leaving the method as it is
Wrapped_Reraised(x, r) == r

\* except Exception as e: raise RuntimeError(...), around a try block that ended as r
Wrapped(x, r) ==
    IF r.ok THEN r ELSE Raise(r.st, FailedToCreate(x, r.err))

\* except KeyError: raise ValueError(f"Dependency {param_value[1:]} not found")
DependencyNotFound(name) ==
    Error("ValueError", <<"Dependency not found">> \o name)

\* the back-reference handed on as the string it is, the instance dropped
Substitute_Unused(params, resolved, f, g) ==
    IF g.ok
    THEN resolve_constructor_params(g.st, Tail(params), Append(resolved, Head(params)), f)
    ELSE IF IsInstance(g.err, {"KeyError"})
    THEN Raise(g.st, DependencyNotFound(DependencyName(Head(params)[2])))
    ELSE g

\* the back-reference at the head of params, once get_instance of it ended as g
Substitute(params, resolved, f, g) ==
    IF g.ok
    THEN resolve_constructor_params(g.st, Tail(params),
                                    Append(resolved, <<Head(params)[1], g.val>>), f)
    ELSE IF IsInstance(g.err, {"KeyError"})
    THEN Raise(g.st, DependencyNotFound(DependencyName(Head(params)[2])))
    ELSE g

\* Injector._resolve_constructor_params, running in frame f;
\* resolved is the dict built so far, params the entries still to visit
resolve_constructor_params(st, params, resolved, f) ==
    IF Exhausted(f)
    THEN Raise(st, RecursionError)
    ELSE IF params = << >>
    THEN Return(st, resolved)
    ELSE IF IsBackReference(Head(params)[2])
    THEN IF DependencyName(Head(params)[2]) \notin GlobalNames
         THEN \* globals()[...] raises KeyError
              Raise(st, DependencyNotFound(DependencyName(Head(params)[2])))
         ELSE Substitute(params, resolved, f,
                         get_instance(st, Globals(DependencyName(Head(params)[2])), f + 1))
    ELSE resolve_constructor_params(st, Tail(params), Append(resolved, Head(params)), f)

\* implementation(**constructor_params), once the parameters resolved as p
Instantiate(x, p, f) ==
    IF p.ok
    THEN Construct(p.st, registrations[x].implementation, p.val, x, f + 1)
    ELSE p

\* the setter injection with a failure of get_instance(ILogger) left uncaught
SetLogger_Uncaught(c, g) ==
    IF g.ok
    THEN Return([g.st EXCEPT !.heap[c.val.ref].attrs._logger = g.val], c.val)
    ELSE g

\* instance.set_logger(logger), once get_instance(ILogger) ended as g;
\* c is the constructed instance
SetLogger(c, g) ==
    IF g.ok
    THEN Return([g.st EXCEPT !.heap[c.val.ref].attrs._logger = g.val], c.val)
    ELSE IF IsInstance(g.err, {"ValueError", "RuntimeError"})
    THEN Return(g.st, c.val)
    ELSE g

\* the setter injection after the constructor call ended as c
InjectLogger(c, f) ==
    IF ~ c.ok THEN c
    ELSE IF ~ HasSetLogger(c.st.heap[c.val.ref].cls) THEN c
    ELSE SetLogger(c, get_instance(c.st, ILogger, f + 1))

\* Injector._create_instance, running in frame f
create_instance(st, x, f) ==
    IF Exhausted(f)
    THEN Raise(st, RecursionError)
    ELSE Wrapped(x,
            IF registrations[x].factory
            THEN CallFactory(st, registrations[x].implementation,
                             registrations[x].params, x, f + 1)
            ELSE InjectLogger(
                    Instantiate(x,
                        resolve_constructor_params(st, registrations[x].params, << >>, f + 1),
                        f),
                    f))

\* the build is returned without being put into the singleton cache
StoreSingleton_NotStored(x, c) == c

\* the cache slot is filled whether or not the build succeeded
StoreSingleton_EvenIfFailed(x, c) ==
    IF c.ok
    THEN Return([c.st EXCEPT !.sing = Put(c.st.sing, x, c.val)], c.val)
    ELSE Raise([c.st EXCEPT !.sing = Put(c.st.sing, x, None)], c.err)

\* self._singleton_instances[interface_type] = ..., once _create_instance ended as c
StoreSingleton(x, c) ==
    IF c.ok
    THEN Return([c.st EXCEPT !.sing = Put(c.st.sing, x, c.val)], c.val)
    ELSE c

\* self._scoped_instances[interface_type] = ..., once _create_instance ended as c
StoreScoped(x, c) ==
    IF c.ok
    THEN Return([c.st EXCEPT !.scoped = Put(c.st.scoped, x, c.val)], c.val)
    ELSE c

\* get_instance, the Singleton branch
LookupSingleton(st, x, f) ==
    IF x \notin DOMAIN st.sing
    THEN StoreSingleton(x, create_instance(st, x, f + 1))
    ELSE Return(st, st.sing[x])

\* the Scoped branch without the check of _in_scope
LookupScoped_Unchecked(st, x, f) ==
    IF x \notin DOMAIN st.scoped
    THEN StoreScoped(x, create_instance(st, x, f + 1))
    ELSE Return(st, st.scoped[x])

\* get_instance, the Scoped branch
LookupScoped(st, x, f) ==
    IF ~ in_scope
    THEN Raise(st, Error("RuntimeError", <<"Cannot get scoped instance outside of a scope">>))
    ELSE IF x \notin DOMAIN st.scoped
    THEN StoreScoped(x, create_instance(st, x, f + 1))
    ELSE Return(st, st.scoped[x])

\* the PerRequest branch keeping what it built, as the Singleton branch does
LookupPerRequest_Kept(st, x, f) ==
    LookupSingleton(st, x, f)

\* get_instance, the PerRequest branch
LookupPerRequest(st, x, f) ==
    create_instance(st, x, f + 1)

\* Injector.get_instance, running in frame f
get_instance(st, x, f) ==
    IF Exhausted(f)
    THEN Raise(st, RecursionError)
    ELSE IF ~ registrations[x].registered
    THEN Raise(st, Error("ValueError", <<"No registration found for", x>>))
    ELSE Wrapped(x,
            IF registrations[x].life_style = Singleton THEN LookupSingleton(st, x, f)
            ELSE IF registrations[x].life_style = Scoped THEN LookupScoped(st, x, f)
            ELSE LookupPerRequest(st, x, f))

-----------------------------------------------------------------------------
(* Inputs of register: the registrations a configuration may ask for *)

ConnectionString == <<"connection_string", Literal("server=prod;database=app")>>
SmtpServer == <<"smtp_server", Literal("smtp.example.com")>>
SmtpPort == <<"smtp_port", IntValue(587)>>
LoggerRef == <<"logger", Marker(ILogger)>>

Request(x, implementation, life_style, params) ==
    [interface_type |-> x, implementation |-> implementation,
     life_style |-> life_style, params |-> params]

\* configure_dev
DevRequests ==
    { Request(ILogger, ConsoleLogger, Singleton, << >>),
      Request(IDatabase, MockDatabase, PerRequest, << >>),
      Request(IEmailService, MockEmailService, Scoped, << >>) }

\* configure_prod
ProdRequests ==
    { Request(ILogger, create_file_logger, Singleton, << >>),
      Request(IDatabase, SqlDatabase, Scoped, <<ConnectionString, LoggerRef>>),
      Request(IEmailService, SmtpEmailService, Singleton, <<SmtpServer, SmtpPort, LoggerRef>>) }

\* further requests register accepts or rejects
OtherRequests ==
    { Request(ILogger, ConsoleLogger, Scoped, << >>),
      Request(ILogger, FileLogger, Singleton, << <<"filename", Marker(IDatabase)>> >>),
      Request(ILogger, create_file_logger, Singleton, << <<"filename", Marker(IDatabase)>> >>),
      Request(IDatabase, SqlDatabase, Singleton, <<ConnectionString>>),
      Request(IDatabase, SqlDatabase, Singleton, <<LoggerRef>>),
      Request(IDatabase, SqlDatabase, Scoped, <<ConnectionString, <<"logger", Marker("IMissing")>> >>),
      Request(IEmailService, NotCallable, Singleton, << >>) }

Requests == DevRequests \cup ProdRequests \cup OtherRequests

-----------------------------------------------------------------------------
(* lab5: users, dictionaries of users, files *)

\* the dataclass User
User(id, name, login, password, email, address) ==
    [id |-> id, name |-> name, login |-> login, password |-> password,
     email |-> email, address |-> address]

\* the users demo_system works with; the second is the first after line 282
Alex == User(1, "Alexey Petrov", "alex", "qwerty", Literal("alex@example.com"), None)
AlexRenamed == User(1, "Alexey Nikolaevich Petrov", "alex", "qwerty",
                    Literal("alex@example.com"), None)
Mary == User(2, "Maria Ivanova", "mary", "12345", None, Literal("Pushkin st. 10"))

Users == {Alex, AlexRenamed, Mary}

\* Optional[User]: None
NoUser == [none |-> TRUE]

\* User.to_dict: a dict in insertion order, a sequence of <<key, value>>
to_dict(user) ==
    << <<"id", user.id>>, <<"name", user.name>>, <<"login", user.login>>,
       <<"password", user.password>>, <<"email", user.email>>,
       <<"address", user.address>> >>

\* User.from_dict
from_dict(data) ==
    User(Get(data, "id"), Get(data, "name"), Get(data, "login"),
         Get(data, "password"), GetOr(data, "email", None),
         GetOr(data, "address", None))

\* a file: absent, holding the JSON text of data, or holding text json.load rejects
NoFile == [exists |-> FALSE, valid |-> FALSE, data |-> << >>]
File(data) == [exists |-> TRUE, valid |-> TRUE, data |-> data]
Corrupt == [exists |-> TRUE, valid |-> FALSE, data |-> << >>]

\* how open(path, 'w') followed by json.dump can end: the text is written, open
\* raises and the file is as it was, or the dump raises and leaves a partial text
IOOutcomes == {"written", "open fails", "dump fails"}

Written(file, data, io) ==
    CASE io = "written" -> File(data)
      [] io = "open fails" -> file
      [] OTHER -> Corrupt

\* any(getattr(existing, 'id') == id for existing in self._items)
HasId(its, id) == \E i \in 1..Len(its) : its[i].id = id

\* DataRepository.get_by_id
get_by_id(its, id) ==
    IF HasId(its, id)
    THEN its[CHOOSE i \in 1..Len(its) :
                 its[i].id = id /\ \A j \in 1..(i - 1) : its[j].id # id]
    ELSE NoUser

\* DataRepository._load
Load(file) ==
    IF file.exists /\ file.valid
    THEN [i \in 1..Len(file.data) |-> from_dict(file.data[i])]
    ELSE << >>

\* [self._serialize(item) for item in self._items]
Dump(its) == [i \in 1..Len(its) |-> to_dict(its[i])]

\* AuthService._auto_sign_in with _current_user None before
auto_sign_in(file, its) ==
    IF file.exists /\ file.valid /\ "user_id" \in Keys(file.data)
    THEN get_by_id(its, Get(file.data, "user_id"))
    ELSE NoUser

\* outcome of an operation of lab5, as its caller sees it
Result(op, user, ok, err) == [op |-> op, user |-> user, ok |-> ok, err |-> err]
NoSession == Result("none", NoUser, TRUE, NoError)

-----------------------------------------------------------------------------
(* The state machine *)

\* last[x]: what the previous successful get_instance(x) returned, the life style x
\* had then, and how a Scope was left since ("" when none was)
NoLast == [val |-> None, life_style |-> "", exited |-> ""]

\* ret.prev is last[ret.id] as it was when get_instance(ret.id) was called
Outcome(op, x, ok, val, err, prev) ==
    [op |-> op, id |-> x, ok |-> ok, val |-> val, err |-> err, prev |-> prev]
NoCall == Outcome("init", "", TRUE, None, NoError, NoLast)

Init ==
    /\ registrations = [x \in Interfaces |-> NoRegistration]
    /\ singleton_instances = EmptyDict
    /\ scoped_instances = EmptyDict
    /\ in_scope = FALSE
    /\ heap = << >>
    /\ active = 0
    /\ entered_at = 0
    /\ ret = NoCall
    /\ last = [x \in Interfaces |-> NoLast]
    /\ factory_calls = << >>
    /\ calls = 0
    /\ items = << >>
    /\ users_json = NoFile
    /\ current_user = NoUser
    /\ auth_json = NoFile
    /\ out = NoSession
    /\ session = NoSession

\* register without the check of lines 47-48: whatever is passed is stored
Register_Unchecked(x, implementation, life_style, params) ==
    /\ calls < MaxCalls
    /\ calls' = calls + 1
    /\ registrations' =
          [registrations EXCEPT ![x] =
              [registered |-> TRUE,
               life_style |-> life_style,
               params |-> params,
               factory |-> IsCallable(implementation) /\ ~ IsType(implementation),
               implementation |-> implementation]]
    /\ ret' = Outcome("register", x, TRUE, None, NoError, NoLast)
    /\ factory_calls' = << >>
    /\ UNCHANGED <<singleton_instances, scoped_instances, in_scope, heap, active,
                   entered_at, last>>
    /\ UNCHANGED lab5_vars

\* Injector.register(interface_type, implementation, life_style, params)
Register(x, implementation, life_style, params) ==
    /\ calls < MaxCalls
    /\ calls' = calls + 1
    /\ IF ~ (IsType(implementation) \/ IsCallable(implementation))
       THEN /\ ret' = Outcome("register", x, FALSE, None,
                               Error("ValueError",
                                     <<"Implementation must be a class or callable factory method">>),
                               NoLast)
            /\ UNCHANGED registrations
       ELSE /\ registrations' =
                  [registrations EXCEPT ![x] =
                      [registered |-> TRUE,
                       life_style |-> life_style,
                       params |-> params,
                       factory |-> IsCallable(implementation) /\ ~ IsType(implementation),
                       implementation |-> implementation]]
            /\ ret' = Outcome("register", x, TRUE, None, NoError, NoLast)
    /\ factory_calls' = << >>
    /\ UNCHANGED <<singleton_instances, scoped_instances, in_scope, heap, active,
                   entered_at, last>>
    /\ UNCHANGED lab5_vars

\* what a caller's get_instance(x) that ended as r leaves behind
Completed(x, r) ==
    /\ singleton_instances' = r.st.sing
    /\ scoped_instances' = r.st.scoped
    /\ heap' = r.st.heap
    /\ factory_calls' = r.st.factory_calls
    /\ ret' = Outcome("get", x, r.ok, r.val, r.err, last[x])
    /\ last' = IF r.ok
               THEN [last EXCEPT ![x] =
                        [val |-> r.val, life_style |-> registrations[x].life_style,
                         exited |-> ""]]
               ELSE last

\* a caller's injector.get_instance(interface_type)
GetInstance(x) ==
    /\ calls < MaxCalls
    /\ calls' = calls + 1
    /\ Completed(x, get_instance([sing |-> singleton_instances,
                                  scoped |-> scoped_instances,
                                  heap |-> heap,
                                  factory_calls |-> << >>], x, 1))
    /\ UNCHANGED <<registrations, in_scope, active, entered_at>>
    /\ UNCHANGED lab5_vars

\* with injector.scope(): Injector.scope followed by Scope.__enter__
ScopeEnter ==
    /\ calls < MaxCalls
    /\ calls' = calls + 1
    /\ in_scope' = TRUE
    /\ scoped_instances' = EmptyDict
    /\ active' = active + 1
    /\ entered_at' = Len(heap)
    /\ ret' = Outcome("enter", "", TRUE, None, NoError, NoLast)
    /\ factory_calls' = << >>
    /\ UNCHANGED <<registrations, singleton_instances, heap, last>>
    /\ UNCHANGED lab5_vars

\* __exit__ cleaning up only when the body returned
ScopeExit_OnSuccessOnly(raised) ==
    /\ calls < MaxCalls
    /\ calls' = calls + 1
    /\ active > 0
    /\ in_scope' = (raised /\ in_scope)
    /\ scoped_instances' = IF raised THEN scoped_instances ELSE EmptyDict
    /\ active' = active - 1
    /\ last' = [x \in Interfaces |->
                   [last[x] EXCEPT !.exited = IF raised THEN "raised" ELSE "returned"]]
    /\ ret' = Outcome("exit", "", ~ raised, None,
                      IF raised THEN Error("Exception", <<"raised in the body">>) ELSE NoError,
                      NoLast)
    /\ factory_calls' = << >>
    /\ UNCHANGED <<registrations, singleton_instances, heap, entered_at>>
    /\ UNCHANGED lab5_vars

\* __exit__ leaving the flag as it is
Scope__exit___FlagKept(raised) ==
    /\ active > 0
    /\ in_scope' = in_scope
    /\ scoped_instances' = EmptyDict
    /\ active' = active - 1
    /\ last' = [x \in Interfaces |->
                   [last[x] EXCEPT !.exited = IF raised THEN "raised" ELSE "returned"]]
    /\ ret' = Outcome("exit", "", ~ raised, None,
                      IF raised THEN Error("Exception", <<"raised in the body">>) ELSE NoError,
                      NoLast)
    /\ factory_calls' = << >>
    /\ UNCHANGED <<registrations, singleton_instances, heap, entered_at>>
    /\ UNCHANGED lab5_vars

\* __exit__ clearing the flag and keeping the scoped cache
Scope__exit___CacheKept(raised) ==
    /\ active > 0
    /\ in_scope' = FALSE
    /\ scoped_instances' = scoped_instances
    /\ active' = active - 1
    /\ last' = [x \in Interfaces |->
                   [last[x] EXCEPT !.exited = IF raised THEN "raised" ELSE "returned"]]
    /\ ret' = Outcome("exit", "", ~ raised, None,
                      IF raised THEN Error("Exception", <<"raised in the body">>) ELSE NoError,
                      NoLast)
    /\ factory_calls' = << >>
    /\ UNCHANGED <<registrations, singleton_instances, heap, entered_at>>
    /\ UNCHANGED lab5_vars

\* Scope.__exit__ of an open with-block, raised tells whether the body raised
Scope__exit__(raised) ==
    /\ active > 0
    /\ in_scope' = FALSE
    /\ scoped_instances' = EmptyDict
    /\ active' = active - 1
    /\ last' = [x \in Interfaces |->
                   [last[x] EXCEPT !.exited = IF raised THEN "raised" ELSE "returned"]]
    /\ ret' = Outcome("exit", "", ~ raised, None,
                      IF raised THEN Error("Exception", <<"raised in the body">>) ELSE NoError,
                      NoLast)
    /\ factory_calls' = << >>
    /\ UNCHANGED <<registrations, singleton_instances, heap, entered_at>>
    /\ UNCHANGED lab5_vars

\* the end of a with-block, as one of the callers' operations
ScopeExit(raised) ==
    /\ calls < MaxCalls
    /\ calls' = calls + 1
    /\ Scope__exit__(raised)

\* the end of a with-block that is still open when the callers' operations
\* are used up: the with statement runs __exit__ all the same
Unwind(raised) ==
    /\ calls >= MaxCalls
    /\ calls' = calls
    /\ Scope__exit__(raised)

Next ==
    \/ \E q \in Requests :
          Register(q.interface_type, q.implementation, q.life_style, q.params)
    \/ \E x \in Interfaces : GetInstance(x)
    \/ ScopeEnter
    \/ \E raised \in BOOLEAN : ScopeExit(raised)

Spec == Init /\ [][Next]_vars

\* the callers' operations, with every with-block reaching its end: the body of
\* a with-block returns or raises, and the with statement then calls __exit__
NextUnwinding ==
    \/ Next
    \/ \E raised \in BOOLEAN : Unwind(raised)

UnwindingSpec ==
    /\ Init /\ [][NextUnwinding]_vars
    /\ WF_vars(\E raised \in BOOLEAN : ScopeExit(raised))
    /\ WF_vars(\E raised \in BOOLEAN : Unwind(raised))

-----------------------------------------------------------------------------
(* lab5: the repository and the authorization service *)

\* "Ошибка сохранения ...": the IOError raised when a file could not be written
SaveError == Error("IOError", <<"save failed">>)

\* self._save(), then the return of the operation op on item
Save(op, item, io) ==
    /\ users_json' = Written(users_json, Dump(items'), io)
    /\ out' = Result(op, item, io = "written",
                     IF io = "written" THEN NoError ELSE SaveError)

\* add appending whatever it is given
add_Unchecked(item, io) ==
    /\ items' = Append(items, item)
    /\ Save("add", item, io)
    /\ UNCHANGED <<current_user, auth_json, session>>
    /\ UNCHANGED lab7_vars

\* DataRepository.add(item)
add(item, io) ==
    /\ IF HasId(items, item.id)
       THEN /\ out' = Result("add", item, FALSE, Error("ValueError", <<"exists">>))
            /\ UNCHANGED <<items, users_json>>
       ELSE /\ items' = Append(items, item)
            /\ Save("add", item, io)
    /\ UNCHANGED <<current_user, auth_json, session>>
    /\ UNCHANGED lab7_vars

\* DataRepository.update(item)
update(item, io) ==
    /\ IF HasId(items, item.id)
       THEN /\ items' = [items EXCEPT
                            ![CHOOSE i \in 1..Len(items) :
                                 /\ items[i].id = item.id
                                 /\ \A j \in 1..(i - 1) : items[j].id # item.id] = item]
            /\ Save("update", item, io)
       ELSE /\ out' = Result("update", item, FALSE, Error("ValueError", <<"not found">>))
            /\ UNCHANGED <<items, users_json>>
    /\ UNCHANGED <<current_user, auth_json, session>>
    /\ UNCHANGED lab7_vars

\* [i for i in self._items if getattr(i, 'id') != item_id]
Without(its, id) ==
    LET Other(i) == i.id # id
    IN  SelectSeq(its, Other)

\* DataRepository.delete(item)
delete(item, io) ==
    /\ items' = Without(items, item.id)
    /\ IF Len(items') = Len(items)
       THEN /\ out' = Result("delete", item, FALSE, Error("ValueError", <<"not found">>))
            /\ UNCHANGED users_json
       ELSE Save("delete", item, io)
    /\ UNCHANGED <<current_user, auth_json, session>>
    /\ UNCHANGED lab7_vars

\* AuthService.sign_in(user)
sign_in(user, io) ==
    /\ current_user' = user
    /\ auth_json' = Written(auth_json, << <<"user_id", user.id>> >>, io)
    /\ out' = Result("sign_in", user, io = "written",
                     IF io = "written" THEN NoError ELSE SaveError)
    /\ session' = out'
    /\ UNCHANGED <<items, users_json>>
    /\ UNCHANGED lab7_vars

\* AuthService.sign_out(); removed tells whether os.remove succeeds
sign_out(removed) ==
    /\ current_user' = NoUser
    /\ auth_json' = IF auth_json.exists /\ removed THEN NoFile ELSE auth_json
    /\ out' = Result("sign_out", NoUser, TRUE, NoError)
    /\ session' = out'
    /\ UNCHANGED <<items, users_json>>
    /\ UNCHANGED lab7_vars

\* a new run of the program: UserRepository() and AuthService(user_repo),
\* built from the two files the run before has left
Restart ==
    /\ items' = Load(users_json)
    /\ current_user' = auto_sign_in(auth_json, items')
    /\ out' = Result("restart", current_user', TRUE, NoError)
    /\ session' = NoSession
    /\ UNCHANGED <<users_json, auth_json>>
    /\ UNCHANGED lab7_vars

SystemNext ==
    \/ \E item \in Users, io \in IOOutcomes : add(item, io)
    \/ \E item \in Users, io \in IOOutcomes : update(item, io)
    \/ \E item \in Users, io \in IOOutcomes : delete(item, io)
    \/ \E user \in Users, io \in IOOutcomes : sign_in(user, io)
    \/ \E removed \in BOOLEAN : sign_out(removed)
    \/ Restart

SystemSpec == Init /\ [][SystemNext]_vars

-----------------------------------------------------------------------------
(* Properties *)

\* the life style get_instance(x) dispatches on
LifeStyleOf(x) ==
    IF registrations[x].registered THEN registrations[x].life_style ELSE ""

\* d.get(x)
Entry(d, x) == IF x \in DOMAIN d THEN d[x] ELSE None

\* the step is a caller's get_instance(x)
Called(x) == calls' = calls + 1 /\ ret'.op = "get" /\ ret'.id = x

\* the last operation was get_instance, and it returned an instance
Returned == ret.op = "get" /\ ret.ok

\* C1: while an identity is registered as Singleton, a successful get_instance
\* returns the very instance the previous successful get_instance of that
\* identity returned, whatever scope entries and exits lie between the two.
C1_SingletonIdentical ==
    (Returned /\ LifeStyleOf(ret.id) = Singleton
        /\ ret.prev.life_style = Singleton)
    => ret.val = ret.prev.val

\* two Singleton lookups with a scope exit between them
C1_Witness ==
    /\ Returned /\ LifeStyleOf(ret.id) = Singleton
    /\ ret.prev.life_style = Singleton /\ ret.prev.exited # ""
    /\ ret.val.tag = "ref" /\ ret.val = ret.prev.val

\* C2: a successful get_instance of a PerRequest identity returns an object
\* that did not exist before the call (so it differs from everything returned
\* earlier), the object is held by neither cache, and the identity's entries
\* in the singleton and the scoped cache are what they were before the call.
C2_TransientFresh ==
    [][\A x \in Interfaces :
          (Called(x) /\ ret'.ok /\ LifeStyleOf(x) = PerRequest)
          => /\ ret'.val.tag = "ref" /\ ret'.val.ref > Len(heap)
             /\ \A k \in DOMAIN singleton_instances' : singleton_instances'[k] # ret'.val
             /\ \A k \in DOMAIN scoped_instances' : scoped_instances'[k] # ret'.val
             /\ Entry(singleton_instances', x) = Entry(singleton_instances, x)
             /\ Entry(scoped_instances', x) = Entry(scoped_instances, x)]_vars

\* the second of two PerRequest lookups of one identity
C2_Witness ==
    /\ Returned /\ LifeStyleOf(ret.id) = PerRequest
    /\ ret.prev.life_style = PerRequest /\ ret.prev.val.tag = "ref"
    /\ ret.val # ret.prev.val
    /\ ret.id \notin DOMAIN singleton_instances \cup DOMAIN scoped_instances

\* C3: two successful get_instance calls of a Scoped identity with no scope exit
\* between them lie between the entry and the exit of the Scope that was open at
\* the first, and return the identical instance; with a scope exit between
\* them they belong to different activations and return different instances.
C3_ScopedPerActivation ==
    (Returned /\ LifeStyleOf(ret.id) = Scoped /\ ret.prev.life_style = Scoped)
    => IF ret.prev.exited = ""
       THEN ret.val = ret.prev.val
       ELSE ret.val # ret.prev.val

C5_ReflectsCurrentRegistration ==
    Returned
    => /\ heap[ret.val.ref].of = ret.id
       /\ heap[ret.val.ref].by = registrations[ret.id]

HasUnknownDependency(registration) ==
    \E i \in 1..Len(registration.params) :
        LET v == registration.params[i][2]
        IN  /\ IsBackReference(v)
            /\ \/ DependencyName(v) \notin GlobalNames
               \/ ~ registrations[Globals(DependencyName(v))].registered

\* C7: get_instance of an identity whose registration has a back-reference to
\* an identity without a registration fails with the wrapping RuntimeError
\* ("Failed to create instance of ..."), and neither cache holds an instance
\* of the identity.
C7_UnknownDependencyFails ==
    (ret.op = "get" /\ registrations[ret.id].registered
        /\ HasUnknownDependency(registrations[ret.id]))
    => /\ ~ ret.ok
       /\ ret.err.type = "RuntimeError"
       /\ ret.err.msg[1] = "Failed to create instance of"
       /\ ret.id \notin DOMAIN singleton_instances \cup DOMAIN scoped_instances

\* C8: get_instance of an unregistered identity raises the ValueError of line 77
\* itself, and get_instance of a Scoped identity outside of a scope raises the
\* RuntimeError of line 90 itself, neither inside "Failed to create instance of".
C8_LookupErrorsUnwrapped ==
    /\ (ret.op = "get" /\ ~ registrations[ret.id].registered)
       => /\ ~ ret.ok
          /\ ret.err = Error("ValueError", <<"No registration found for", ret.id>>)
    /\ (ret.op = "get" /\ LifeStyleOf(ret.id) = Scoped /\ ~ in_scope)
       => /\ ~ ret.ok
          /\ ret.err = Error("RuntimeError",
                             <<"Cannot get scoped instance outside of a scope">>)

\* C9: after Scope.__exit__, whether the body returned or raised, _in_scope is
\* false and the scoped cache is empty; after Scope.__enter__, _in_scope is true
\* and the scoped cache is empty; and get_instance never returns an instance
\* that was built as Scoped before the latest scope entry.
C9_ScopeBoundariesClear ==
    /\ ret.op = "exit" => ~ in_scope /\ scoped_instances = EmptyDict
    /\ ret.op = "enter" => in_scope /\ scoped_instances = EmptyDict
    /\ (Returned /\ heap[ret.val.ref].by.life_style = Scoped)
       => ret.val.ref > entered_at

\* a Scoped lookup in a scope entered after the body of an earlier one raised
C9_Witness ==
    /\ Returned /\ LifeStyleOf(ret.id) = Scoped
    /\ ret.prev.life_style = Scoped /\ ret.prev.exited = "raised"
    /\ ret.prev.val.ref <= entered_at /\ ret.val.ref > entered_at

\* C10: at most one Scope guard of the injector is between its entry and its exit.
C10_AtMostOneActiveScope == active <= 1

\* C11: register with an implementation that is neither a class nor callable
\* raises the ValueError of line 48 and leaves the registrations as they were
\* (a binding the identity had is kept); with a class or a callable it replaces
\* the binding of that identity alone by one that carries the life style and
\* the params passed, as a factory when the implementation is callable and no
\* class, and as an implementation otherwise.
C11_RegisterChecksStrategy ==
    [][\A q \in Requests :
          Register(q.interface_type, q.implementation, q.life_style, q.params)
          => IF q.implementation \notin Classes \cup Functions
             THEN /\ ~ ret'.ok
                  /\ ret'.err.type = "ValueError"
                  /\ registrations' = registrations
             ELSE /\ ret'.ok
                  /\ \A y \in Interfaces \ {q.interface_type} :
                        registrations'[y] = registrations[y]
                  /\ registrations'[q.interface_type] =
                        [registered |-> TRUE,
                         life_style |-> q.life_style,
                         params |-> q.params,
                         factory |-> q.implementation \in Functions,
                         implementation |-> q.implementation]]_vars

\* register was refused for an identity that keeps the binding it had
C11_Witness ==
    /\ ret.op = "register" /\ ~ ret.ok
    /\ ret.err.msg = <<"Implementation must be a class or callable factory method">>
    /\ registrations[ret.id].registered

\* the entry of the resolved parameter map that belongs to the entry p of params:
\* a back-reference is replaced by an instance of the identity it names
IsResolved(p, a) ==
    /\ a[1] = p[1]
    /\ IF IsBackReference(p[2])
       THEN /\ a[2].tag = "ref"
            /\ heap[a[2].ref].of = Globals(DependencyName(p[2]))
       ELSE a[2] = p[2]

\* C12: a factory is called with the resolved parameter map of its
\* registration (every back-reference of params replaced by an instance of the
\* identity it names, every other entry as it is in params), and the object a
\* factory returned gets no logger injected.
C12_FactoryGetsResolvedParams ==
    /\ \A i \in 1..Len(factory_calls) :
          LET c == factory_calls[i]
              params == registrations[c.of].params
          IN  /\ Len(c.kwargs) = Len(params)
              /\ \A j \in 1..Len(params) : IsResolved(params[j], c.kwargs[j])
    /\ \A r \in 1..Len(heap) :
          heap[r].by.factory => "_logger" \notin DOMAIN heap[r].attrs

\* the injector's mutable state as a caller's get_instance finds it
Current ==
    [sing |-> singleton_instances, scoped |-> scoped_instances, heap |-> heap,
     factory_calls |-> << >>]

\* the caller's get_instance(x) runs the constructor registered for x
ConstructsAnew(x) ==
    /\ registrations[x].registered /\ ~ registrations[x].factory
    /\ \/ LifeStyleOf(x) = PerRequest
       \/ LifeStyleOf(x) = Singleton /\ x \notin DOMAIN singleton_instances
       \/ LifeStyleOf(x) = Scoped /\ in_scope /\ x \notin DOMAIN scoped_instances

\* the constructor call of that get_instance(x) returned an object
Constructed(x) ==
    \E r \in (Len(heap) + 1)..Len(heap') : heap'[r].of = x

\* self.get_instance(ILogger), as line 133 calls it below a caller's
\* get_instance, fails: ILogger is not registered, or it is Scoped outside of
\* a scope, or its construction fails
LoggerUnresolvable == ~ get_instance(Current, ILogger, 3).ok

\* C13: when the constructor of a type strategy has returned an instance that
\* has set_logger and get_instance(ILogger) fails (ILogger unregistered, Scoped
\* outside of a scope, or failing in its own construction), get_instance of the
\* identity still returns that new instance, its logger is not set, and the
\* caller sees no error.
C13_SetterInjectionBestEffort ==
    [][\A x \in Interfaces :
          (Called(x) /\ ConstructsAnew(x)
              /\ HasSetLogger(registrations[x].implementation)
              /\ Constructed(x) /\ LoggerUnresolvable)
          => /\ ret'.ok /\ ret'.err = NoError
             /\ ret'.val.ref > Len(heap)
             /\ heap'[ret'.val.ref].of = x
             /\ heap'[ret'.val.ref].attrs._logger = None]_vars

\* the first object built is a SqlDatabase without a logger, returned while
\* ILogger is Scoped and no scope is active
C13_Witness ==
    /\ Returned /\ ret.prev = NoLast
    /\ Len(heap) = 1 /\ ret.val = Ref(1)
    /\ HasSetLogger(heap[1].cls) /\ heap[1].attrs._logger = None
    /\ LifeStyleOf(ILogger) = Scoped /\ ~ in_scope

\* C14: a get_instance of a registered identity that fails in construction
\* (the identity is not a Scoped one asked for outside of a scope), at whatever
\* depth the failure arose, raises to its caller a RuntimeError whose message
\* is "Failed to create instance of", the name of that identity, and the cause.
C14_UniformCreationError ==
    (ret.op = "get" /\ ~ ret.ok /\ registrations[ret.id].registered
        /\ ~ (LifeStyleOf(ret.id) = Scoped /\ ~ in_scope))
    => /\ ret.err.type = "RuntimeError"
       /\ Len(ret.err.msg) > 2
       /\ ret.err.msg[1] = "Failed to create instance of"
       /\ ret.err.msg[2] = ret.id

\* the construction of a dependency failed with a TypeError
C14_Witness ==
    /\ ret.op = "get" /\ ~ ret.ok /\ registrations[ret.id].registered
    /\ ~ (LifeStyleOf(ret.id) = Scoped /\ ~ in_scope)
    /\ \E i \in 3..(Len(ret.err.msg) - 2) :
          /\ ret.err.msg[i] = "Failed to create instance of"
          /\ ret.err.msg[i + 1] # ret.id
          /\ ret.err.msg[Len(ret.err.msg)] = "create_file_logger() arguments"

\* the objects built for x under a registration of x as Singleton
BuiltAsSingleton(h, x) ==
    { r \in 1..Len(h) : h[r].of = x /\ h[r].by.life_style = Singleton }

\* C15: over any sequence of register, get_instance and scope operations the
\* injector builds at most one instance for an identity under a Singleton
\* registration, nested get_instance calls (back-reference parameters, the
\* set_logger hook) included, and an entry of the singleton cache, once
\* inserted, keeps the instance it holds.
C15_OneBuildPerSingleton ==
    [][\A x \in Interfaces :
          /\ Cardinality(BuiltAsSingleton(heap', x)) <= 1
          /\ x \in DOMAIN singleton_instances
             => /\ x \in DOMAIN singleton_instances'
                /\ singleton_instances'[x] = singleton_instances[x]]_vars

\* v is the instance a get_instance(y) made during the step returns under the
\* life style of y: the cached one, or for PerRequest one built in the step
ResolvedAs(y, v) ==
    /\ v.tag = "ref"
    /\ CASE LifeStyleOf(y) = Singleton -> v = Entry(singleton_instances', y)
         [] LifeStyleOf(y) = Scoped -> v = Entry(scoped_instances', y)
         [] OTHER -> v.ref > Len(heap) /\ heap'[v.ref].of = y

\* C16: when get_instance returns an instance it has built with a type
\* strategy, the constructor received one argument per entry of params, under
\* the entry's name: for a back-reference the instance get_instance returns
\* for the identity named, by that identity's life style (the cached instance
\* of a Singleton or Scoped identity, a new one of a PerRequest identity), and
\* for any other entry the value of params itself.
C16_ParamsResolved ==
    [][\A x \in Interfaces :
          (Called(x) /\ ret'.ok /\ ret'.val.ref > Len(heap) /\ ~ registrations[x].factory)
          => LET o == heap'[ret'.val.ref]
                 params == registrations[x].params
             IN  /\ Len(o.args) = Len(params)
                 /\ \A j \in 1..Len(params) :
                       /\ o.args[j][1] = params[j][1]
                       /\ IF IsBackReference(params[j][2])
                          THEN ResolvedAs(Globals(DependencyName(params[j][2])), o.args[j][2])
                          ELSE o.args[j][2] = params[j][2]]_vars

\* a Scoped SqlDatabase built with the cached Singleton logger and its
\* connection string
C16_Witness ==
    /\ Returned /\ LifeStyleOf(ret.id) = Scoped /\ in_scope
    /\ ret.val.ref = Len(heap) /\ ret.val # ret.prev.val
    /\ heap[ret.val.ref].by = registrations[ret.id]
    /\ LifeStyleOf(ILogger) = Singleton /\ ILogger \in DOMAIN singleton_instances
    /\ heap[ret.val.ref].args = <<ConnectionString, <<"logger", singleton_instances[ILogger]>> >>

\* the registration of x is a type strategy with a back-reference to y
Names(x, y) ==
    /\ registrations[x].registered /\ ~ registrations[x].factory
    /\ \E i \in 1..Len(registrations[x].params) :
          LET v == registrations[x].params[i][2]
          IN  IsBackReference(v) /\ DependencyName(v) = <<y>>

\* x and y are registered Singleton or Scoped and name each other
Cycle(x, y) ==
    /\ x # y
    /\ Names(x, y) /\ Names(y, x)
    /\ LifeStyleOf(x) \in {Singleton, Scoped}
    /\ LifeStyleOf(y) \in {Singleton, Scoped}

\* C17: while two identities registered Singleton or Scoped name each other
\* through a back-reference parameter, a get_instance of either returns no
\* instance, raises the wrapping RuntimeError, whose innermost cause is the
\* exhausted recursion unless a Scoped identity of the two is asked for outside
\* of a scope, and neither identity is held by the singleton or the scoped
\* cache.
C17_CycleExhausts ==
    \A y \in Interfaces :
        (ret.op = "get" /\ Cycle(ret.id, y))
        => /\ ~ ret.ok
           /\ ret.err.type = "RuntimeError"
           /\ ret.err.msg[1] = "Failed to create instance of"
           /\ (in_scope \/ Scoped \notin {LifeStyleOf(ret.id), LifeStyleOf(y)})
              => ret.err.msg[Len(ret.err.msg)] = "maximum recursion depth exceeded"
           /\ {ret.id, y} \cap (DOMAIN singleton_instances \cup DOMAIN scoped_instances) = {}

\* C18: _in_scope is False (Inactive) or True (Active); it turns True only in
\* Scope.__enter__ and False only in Scope.__exit__; and whenever it is True it
\* is False again later, every with-block entered being left by __exit__,
\* whether its body returned or raised.
C18_ScopeStateMachine ==
    /\ [](in_scope \in BOOLEAN)
    /\ [][/\ (~ in_scope /\ in_scope') => ret'.op = "enter"
          /\ (in_scope /\ ~ in_scope') => ret'.op = "exit"]_vars
    /\ (in_scope ~> ~ in_scope)
    /\ (active > 0 ~> active = 0)

\* a scope whose body raised has been left
C18_Witness ==
    /\ ret.op = "exit" /\ ~ ret.ok
    /\ ~ in_scope /\ active = 0
    /\ \E x \in Interfaces : last[x].exited = "raised"

\* C19: under any sequence of register and get_instance, an identity has an
\* entry in the singleton cache only while it is registered as Singleton, and
\* an entry in the scoped cache only while it is registered as Scoped.
C19_CachesMatchRegistrations ==
    /\ \A x \in DOMAIN singleton_instances : LifeStyleOf(x) = Singleton
    /\ \A x \in DOMAIN scoped_instances : LifeStyleOf(x) = Scoped

\* C20: whenever _in_scope is False the scoped cache is empty, and an entry of
\* the scoped cache is added or replaced only by a step that finds _in_scope
\* True and leaves it True.
C20_ScopedCacheOnlyInScope ==
    /\ [](~ in_scope => scoped_instances = EmptyDict)
    /\ [][\A x \in DOMAIN scoped_instances' :
              Entry(scoped_instances, x) # scoped_instances'[x]
              => in_scope /\ in_scope']_vars

\* the scope in which a Scoped instance was cached has been left
C20_Witness ==
    /\ ret.op = "exit" /\ ~ in_scope
    /\ scoped_instances = EmptyDict
    /\ \E x \in Interfaces :
          /\ last[x].life_style = Scoped /\ last[x].exited # ""
          /\ last[x].val.tag = "ref"

\* the objects the object o holds: the instances passed to its constructor
\* for back-reference parameters and the logger set_logger gave it
Held(o) ==
    { o.args[j][2].ref : j \in { i \in 1..Len(o.args) : o.args[i][2].tag = "ref" } }
    \cup (IF "_logger" \in DOMAIN o.attrs /\ o.attrs._logger.tag = "ref"
          THEN {o.attrs._logger.ref}
          ELSE {})

\* C21: once every scope entered has been left, no instance held in the
\* singleton cache references, through a resolved back-reference parameter or
\* the injected logger, an instance that was built as Scoped.
C21_NoScopedHeldBySingleton ==
    active = 0
    => \A x \in DOMAIN singleton_instances :
          \A r \in Held(heap[singleton_instances[x].ref]) :
              heap[r].by.life_style # Scoped

\* no two entries of the sequence have the same id
DistinctIds(its) ==
    \A i, j \in 1..Len(its) : its[i].id = its[j].id => i = j

\* C22: starting from an empty repository, after any sequence of add, update
\* and delete the items in memory, and the items of the file when it holds
\* JSON, have pairwise distinct ids; add of an item whose id is present raises
\* ValueError and leaves _items as it was, and so do update and delete of an
\* item whose id is not present.
C22_DistinctIds ==
    /\ [](DistinctIds(items) /\ DistinctIds(Load(users_json)))
    /\ [][/\ (out'.op = "add" /\ HasId(items, out'.user.id))
             => ~ out'.ok /\ out'.err.type = "ValueError" /\ items' = items
          /\ (out'.op \in {"update", "delete"} /\ ~ HasId(items, out'.user.id))
             => ~ out'.ok /\ out'.err.type = "ValueError" /\ items' = items]_vars

\* an add was refused for the id of an item the repository holds beside another
C22_Witness ==
    /\ out.op = "add" /\ ~ out.ok /\ out.err.type = "ValueError"
    /\ Len(items) = 2
    /\ HasId(items, out.user.id) /\ out.user \notin { items[i] : i \in 1..Len(items) }

\* C23: a restart after sign_in(u) has returned finds the new AuthService
\* authorized as u whenever the repository of the new run holds u's id, and a
\* restart after sign_out() has returned finds it not authorized, also when
\* the auth file could not be written or removed.
C23_AuthSurvivesRestart ==
    [][out'.op = "restart"
       => /\ (session.op = "sign_in" /\ session.ok /\ HasId(items', session.user.id))
             => /\ current_user' # NoUser
                /\ current_user'.id = session.user.id
          /\ session.op = "sign_out" => current_user' = NoUser]_vars

====
